---- MODULE Spec2Model ----
(***************************************************************************)
(* The GU (gene unification) pipeline of gu.py: two GFF feature files are  *)
(* compared for coordinate overlaps and the overlapping pairs bucketized   *)
(* by the shape of their connected component, in no-aggregate mode (-n)    *)
(* or in aggregate mode (-a).  The pipeline is a straight line of          *)
(* execStep calls; each call is one action below.  The TableTools          *)
(* primitives (TA, TB, TD, TF, TJ, TP, TS, FJ) are imported by gu.py and   *)
(* are modelled by their contracts; the arguments gu.py hands to them      *)
(* (key columns, join sides, null string, expressions) are modelled from   *)
(* the call sites.                                                         *)
(*                                                                         *)
(* Three specifications:                                                   *)
(*   Spec    the pipeline, both modes, on bounded input files              *)
(*   SpecTB  the cluster builder fed one pair stream in two orders         *)
(*   SpecFn  the pure functions (extractID, coalesce, feature aggregator)  *)
(***************************************************************************)
EXTENDS Integers, Sequences, FiniteSets, TLC

VARIABLES
    options,    \* self.options: [aggregate, noSelfHits]
    fs,         \* files other than bucket files: name -> rows
    f1, f2,     \* go_*'s locals f1, f2: names of the stage inputs
    ovl,        \* the local 'overlaps' / 'ovlExons': name of the pair file
    novl,       \* the local novl: rows written by the last overlap stage
    pc,         \* the next statement of go() / go_noAggregate / go_aggregate
    tempfiles,  \* self.tempfiles
    buckets,    \* bucket files (template % label): label -> rows
    log,        \* messages written by self.debug that the claims speak of
    stream,     \* SpecTB: key pairs fed to the cluster builder
    stream2,    \* SpecTB: the same pairs in another order
    tbNull,     \* SpecTB: whether the null string '.' is in force (-n.)
    tbpos,      \* SpecTB: pairs consumed so far
    uf, uf2,    \* SpecTB: the builder's connectivity state for each stream
    tbout,      \* SpecTB: the two annotated outputs once both passes ran
    fnIn,       \* SpecFn: the input drawn for one pure function
    fnOut       \* SpecFn: its result

pipeVars == <<options, fs, f1, f2, ovl, novl, pc, tempfiles, buckets, log>>
tbVars == <<stream, stream2, tbNull, tbpos, uf, uf2, tbout>>
fnVars == <<fnIn, fnOut>>
vars == <<options, fs, f1, f2, ovl, novl, pc, tempfiles, buckets, log,
          stream, stream2, tbNull, tbpos, uf, uf2, tbout, fnIn, fnOut>>

---------------------------------------------------------------------------
(* Bounds of the model.                                                    *)

\* lines of one input file (Spec)
MaxRecs == 3
\* pairs in the stream fed to the cluster builder (SpecTB)
MaxPairs == 3
\* characters of a column-9 text (SpecFn)
MaxText == 4
\* records handed to the feature aggregator (SpecFn)
MaxGroup == 2

---------------------------------------------------------------------------
(* Generic helpers.                                                        *)

SeqsUpTo(S, n) == UNION {[1..k -> S] : k \in 0..n}

MinOf(S) == CHOOSE x \in S : \A y \in S : x <= y

MaxOf(S) == CHOOSE x \in S : \A y \in S : x >= y

Min2(a, b) == IF a <= b THEN a ELSE b

Max2(a, b) == IF a >= b THEN a ELSE b

RECURSIVE Flatten(_)
Flatten(ss) == IF ss = <<>> THEN <<>> ELSE Head(ss) \o Flatten(Tail(ss))

Indices(s) == [i \in 1..Len(s) |-> i]

Range(s) == {s[i] : i \in 1..Len(s)}

EmptyFcn == [k \in {} |-> 0]

---------------------------------------------------------------------------
(* Text.  A text is a sequence of one-character strings.                   *)

\* str.lower / re.I on the letters the model uses
Lower(c) == CASE c = "P" -> "p"
              [] c = "A" -> "a"
              [] OTHER -> c

\* str.lower on the GFF types and chromosome prefixes the model uses
LowerWord(w) == CASE w = "Exon" -> "exon"
                  [] w = "Gene" -> "gene"
                  [] w = "Chr" -> "chr"
                  [] w = "CHROM" -> "chrom"
                  [] OTHER -> w

\* re.sub('^(?i)chr(om(osome)?)?', '', IN[1]) on a chromosome name
StripChr(c) ==
    IF c # <<>> /\ LowerWord(c[1]) \in {"chr", "chrom", "chromosome"}
    THEN Tail(c) ELSE c

\* the placeholder (null string) '.' of the -n. arguments, as a text
Dot == <<".">>

\* a numeric cell (count, start, end) holding the text '.': no number is '.'
DotNum == 0 - 1

\* A pattern  pre(?P<id>[set]+)  or  pre(?P<id>[^set]+) : a literal prefix
\* followed by the named group over a character class.
InClass(patt, c) ==
    IF patt.neg THEN \A d \in patt.set : Lower(d) # Lower(c)
                ELSE \E d \in patt.set : Lower(d) = Lower(c)

\* whether the pattern matches with the match starting at position i
MatchesAt(patt, text, i, ignoreCase) ==
    LET n == Len(patt.pre) IN
    /\ i + n <= Len(text)
    /\ \A k \in 1..n :
          IF ignoreCase THEN Lower(text[i + k - 1]) = Lower(patt.pre[k])
                        ELSE text[i + k - 1] = patt.pre[k]
    /\ IF ignoreCase THEN InClass(patt, text[i + n])
                     ELSE (text[i + n] \in patt.set) # patt.neg

\* the greedy end of the group that starts at position j
RECURSIVE GroupEnd(_, _, _)
GroupEnd(patt, text, j) ==
    IF j < Len(text) /\ InClass(patt, text[j + 1])
    THEN GroupEnd(patt, text, j + 1)
    ELSE j

NoMatch == [found |-> FALSE]

\* re.search(patt, text, flags): scan for the leftmost match
RECURSIVE ReSearchFrom(_, _, _, _)
ReSearchFrom(patt, text, i, ignoreCase) ==
    IF i > Len(text) THEN NoMatch
    ELSE IF MatchesAt(patt, text, i, ignoreCase)
         THEN [found |-> TRUE, at |-> i,
               id |-> SubSeq(text, i + Len(patt.pre),
                             GroupEnd(patt, text, i + Len(patt.pre)))]
         ELSE ReSearchFrom(patt, text, i + 1, ignoreCase)

ReSearch(patt, text, ignoreCase) == ReSearchFrom(patt, text, 1, ignoreCase)

\* a plausible slip: re.search without re.I
ExtractID_caseSensitive(col9, patt) ==
    LET m == ReSearch(patt, col9, FALSE) IN
    IF m.found THEN m.id ELSE col9

\* guUtil.extractID
extractID(col9, patt) ==
    LET m == ReSearch(patt, col9, TRUE) IN
    IF m.found THEN m.id ELSE col9

\* the text that opens the group named id; a pattern text is a sequence of
\* pieces of which this is one
GroupOpen == "(?P<id>"

\* an option that was not given on the command line (None)
NotGiven == [given |-> FALSE, text |-> <<>>]

\* a plausible slip: the pattern is wrapped whether or not it has the group
GroomRe_alwaysWraps(own, default) ==
    LET r == IF ~own.given THEN default ELSE own.text
    IN <<"r'">> \o (<<GroupOpen>> \o r \o <<")">>) \o <<"'">>

\* __init__.groomRe(name, default), own being the option called name
groomRe(own, default) ==
    LET r == IF ~own.given THEN default ELSE own.text
        r2 == IF \A i \in 1..Len(r) : r[i] # GroupOpen
              THEN <<GroupOpen>> \o r \o <<")">>
              ELSE r
    IN <<"r'">> \o r2 \o <<"'">>

\* the default of --are, 'Parent=(?P<id>[^"; ]+)', after groomRe
DefaultAre == [pre |-> <<"P", "a", "r", "e", "n", "t", "=">>,
               neg |-> TRUE, set |-> {"\"", ";", " "}]

---------------------------------------------------------------------------
(* Feature records and the input files of Spec.                            *)
(* A feature keeps the GFF columns the pipeline reads: 1 (chr), 3 (type),  *)
(* 4 (start), 5 (end), 7 (strand) and 9 (attributes; after the             *)
(* aggregate-mode select step, the extracted id).  A chromosome name is a  *)
(* text in tokens: <<"19">>, <<"Chr", "19">>.                              *)

Parent(c) == <<"P", "a", "r", "e", "n", "t", "=", c>>

Feature(iv, at) ==
    [chr |-> <<"19">>, type |-> "gene", start |-> iv[1], end |-> iv[2],
     strand |-> "+", col9 |-> at]

\* the lines file 1 is drawn from, in file order: one is an exon line that
\* names its chromosome Chr19, the last one has no attributes
LeftUniverse ==
    << Feature(<<1, 2>>, Parent("a")), Feature(<<4, 5>>, Parent("a")),
       Feature(<<1, 2>>, Parent("b")),
       [Feature(<<4, 5>>, Parent("b")) EXCEPT !.chr = <<"Chr", "19">>,
                                              !.type = "Exon"],
       Feature(<<4, 5>>, Dot) >>

\* the lines file 2 is drawn from, in file order; column 9 of a GFF line
\* without attributes is '.'
RightUniverse ==
    << Feature(<<2, 3>>, Parent("a")), Feature(<<5, 6>>, Parent("a")),
       Feature(<<2, 3>>, Parent("c")),
       [Feature(<<5, 6>>, Parent("c")) EXCEPT !.type = "exon"],
       Feature(<<2, 3>>, Dot),         Feature(<<5, 6>>, Dot) >>

\* the lines of u at the positions S, in the order of u
Pick(u, S) == SelectSeq(u, LAMBDA r : \E i \in S : u[i] = r)

InputFiles(u) ==
    {Pick(u, S) : S \in {T \in SUBSET (1..Len(u)) : Cardinality(T) <= MaxRecs}}

---------------------------------------------------------------------------
(* The TableTools primitives, by contract.                                 *)

\* the default of -k / --minOverlap
MinOverlap == 1

\* FJ: overlap(a,b) = min(a.end,b.end) - max(a.start,b.start) + 1
Overlap(a, b) == Min2(a.end, b.end) - Max2(a.start, b.start) + 1

\* FJ without --columns1: every cross pair on the same chromosome and
\* strand that overlaps by at least k; a row is the overlap amount, the
\* columns of a, the columns of b
FJoin(t1, t2, k) ==
    LET m == Len(t2)
        cand == [n \in 1..(Len(t1) * m) |->
                   LET a == t1[((n - 1) \div m) + 1]
                       b == t2[((n - 1) % m) + 1]
                   IN [ovl |-> Overlap(a, b), a |-> a, b |-> b]]
    IN SelectSeq(cand, LAMBDA r : /\ r.a.chr = r.b.chr
                                  /\ r.a.strand = r.b.strand
                                  /\ r.ovl >= k)

\* --- TB, the cluster builder ---------------------------------------------
\* Its state maps every left key and every right key seen so far to the id
\* of its cluster.  keys are pairs <<k1, k2>>; with a null string in force
\* a key equal to it names no node.

TBInit == [l |-> EmptyFcn, r |-> EmptyFcn]

TBHas(k, hasNull, null) == ~(hasNull /\ k = null)

\* a plausible slip: the pair joins an existing cluster but two existing
\* clusters it connects are not merged
TBAddNoMerge(st, kp, i, hasNull, null) ==
    LET hasL == TBHas(kp[1], hasNull, null)
        hasR == TBHas(kp[2], hasNull, null)
        cl == IF hasL /\ kp[1] \in DOMAIN st.l THEN st.l[kp[1]] ELSE 0
        cr == IF hasR /\ kp[2] \in DOMAIN st.r THEN st.r[kp[2]] ELSE 0
        target == IF cl # 0 THEN cl ELSE IF cr # 0 THEN cr ELSE i
    IN [l |-> [k \in DOMAIN st.l \cup (IF hasL THEN {kp[1]} ELSE {}) |->
                 IF hasL /\ k = kp[1] THEN target ELSE st.l[k]],
        r |-> [k \in DOMAIN st.r \cup (IF hasR THEN {kp[2]} ELSE {}) |->
                 IF hasR /\ k = kp[2] THEN target ELSE st.r[k]]]

\* first pass, one pair: union the pair's left key and right key; a cluster
\* takes the position of the pair that discovers it as its id
TBAdd(st, kp, i, hasNull, null) ==
    LET hasL == TBHas(kp[1], hasNull, null)
        hasR == TBHas(kp[2], hasNull, null)
        cl == IF hasL /\ kp[1] \in DOMAIN st.l THEN st.l[kp[1]] ELSE 0
        cr == IF hasR /\ kp[2] \in DOMAIN st.r THEN st.r[kp[2]] ELSE 0
        target == IF cl # 0 THEN cl ELSE IF cr # 0 THEN cr ELSE i
        Relabel(c) == IF c # 0 /\ c \in {cl, cr} THEN target ELSE c
    IN [l |-> [k \in DOMAIN st.l \cup (IF hasL THEN {kp[1]} ELSE {}) |->
                 IF hasL /\ k = kp[1] THEN target ELSE Relabel(st.l[k])],
        r |-> [k \in DOMAIN st.r \cup (IF hasR THEN {kp[2]} ELSE {}) |->
                 IF hasR /\ k = kp[2] THEN target ELSE Relabel(st.r[k])]]

RECURSIVE TBFoldFrom(_, _, _, _, _)
TBFoldFrom(st, keys, i, hasNull, null) ==
    IF i > Len(keys) THEN st
    ELSE TBFoldFrom(TBAdd(st, keys[i], i, hasNull, null), keys, i + 1,
                    hasNull, null)

\* the bucket label, a function of the cluster's two counts
BucketLabel(lc, rc) ==
    CASE lc = 1 /\ rc = 0 -> "1-0"
      [] lc = 0 /\ rc = 1 -> "0-1"
      [] lc = 1 /\ rc = 1 -> "1-1"
      [] lc = 1 /\ rc > 1 -> "1-n"
      [] lc > 1 /\ rc = 1 -> "n-1"
      [] OTHER -> "n-m"

\* second pass: every pair gets its cluster's id, the cluster's distinct
\* left and right key counts and the label; cid = 0 marks a row neither of
\* whose keys names a node
TBAssign(st, keys, hasNull, null) ==
    [i \in 1..Len(keys) |->
       LET hasL == TBHas(keys[i][1], hasNull, null)
           hasR == TBHas(keys[i][2], hasNull, null)
           cid == IF hasL THEN st.l[keys[i][1]]
                  ELSE IF hasR THEN st.r[keys[i][2]] ELSE 0
           lc == Cardinality({k \in DOMAIN st.l : st.l[k] = cid})
           rc == Cardinality({k \in DOMAIN st.r : st.r[k] = cid})
       IN [cid |-> cid, lc |-> lc, rc |-> rc, label |-> BucketLabel(lc, rc)]]

TBucketize(keys, hasNull, null) ==
    TBAssign(TBFoldFrom(TBInit, keys, 1, hasNull, null), keys, hasNull, null)

\* --- TS, TP, TD ------------------------------------------------------------

LabelRank(lab) == CASE lab = "0-1" -> 1 [] lab = "1-0" -> 2 [] lab = "1-1" -> 3
                    [] lab = "1-n" -> 4 [] lab = "n-1" -> 5 [] OTHER -> 6

RowLess(x, y) ==
    \/ LabelRank(x.label) < LabelRank(y.label)
    \/ x.label = y.label /\ x.cid < y.cid

InsertRow(s, x) ==
    LET k == Cardinality({i \in 1..Len(s) : ~RowLess(x, s[i])})
    IN SubSeq(s, 1, k) \o <<x>> \o SubSeq(s, k + 1, Len(s))

\* TS on the label column, then the cluster id column; stable
RECURSIVE TSort(_)
TSort(rows) ==
    IF rows = <<>> THEN <<>>
    ELSE InsertRow(TSort(SubSeq(rows, 1, Len(rows) - 1)), rows[Len(rows)])

\* TP: one file per distinct label, rows in arrival order; a label without
\* rows gets no file
TPartition(rows) ==
    [lab \in {rows[i].label : i \in 1..Len(rows)} |->
       SelectSeq(rows, LAMBDA r : r.label = lab)]

\* TD: the rows of t whose key has no counterpart among keys2
TDiff(t, keys1, keys2) ==
    LET keep == SelectSeq(Indices(t), LAMBDA i : keys1[i] \notin Range(keys2))
    IN [n \in 1..Len(keep) |-> t[keep[n]]]

\* --- TJ ----------------------------------------------------------------------
\* The equi-join on one key column per side, as index pairs <<i, j>>:
\* the matches in the order of the first input, a left row without match
\* as <<i, 0>> when left rows are kept, then the right rows without match
\* as <<0, j>> when right rows are kept.
TJoin(keys1, keys2, keepLeft, keepRight) ==
    LET MatchesOf(i) ==
            SelectSeq(Indices(keys2), LAMBDA j : keys2[j] = keys1[i])
        RowsOf(i) ==
            IF MatchesOf(i) # <<>>
            THEN [n \in 1..Len(MatchesOf(i)) |-> <<i, MatchesOf(i)[n]>>]
            ELSE IF keepLeft THEN << <<i, 0>> >> ELSE <<>>
        rightOnly ==
            SelectSeq(Indices(keys2),
                      LAMBDA j : \A i \in 1..Len(keys1) : keys1[i] # keys2[j])
    IN Flatten([i \in 1..Len(keys1) |-> RowsOf(i)])
       \o (IF keepRight
           THEN [n \in 1..Len(rightOnly) |-> <<0, rightOnly[n]>>]
           ELSE <<>>)

---------------------------------------------------------------------------
(* The pipeline's stages: what gu.py asks of each primitive.               *)

\* self.types1 = str(self.options.types1).lower()
LowerTypes(types) == {LowerWord(types[i]) : i \in 1..Len(types)}

\* ?str.lower(IN[3]) in types, ?str.lower(IN[3]) not in notTypes; each
\* only when the option was given
TypeSelected(r, types, notTypes) ==
    /\ Len(types) > 0 => LowerWord(r.type) \in LowerTypes(types)
    /\ Len(notTypes) > 0 => LowerWord(r.type) \notin LowerTypes(notTypes)

\* chrMatchExpr: the output columns of the no-aggregate select step
ChrMatchExpr(r, loose) ==
    IF loose THEN [r EXCEPT !.chr = StripChr(r.chr)] ELSE r

\* no-aggregate mode, select step (run only with a type option)
SelectRows(t, types, notTypes, loose) ==
    LET keep == SelectSeq(t, LAMBDA r : TypeSelected(r, types, notTypes))
    IN [i \in 1..Len(keep) |-> ChrMatchExpr(keep[i], loose)]

\* aggregate mode, select step: the type filters, then columns 1-8 and
\* extractID(IN[9], are)
SelectAndExtract(t, types, notTypes, are) ==
    LET keep == SelectSeq(t, LAMBDA r : TypeSelected(r, types, notTypes))
    IN [i \in 1..Len(keep) |->
          [keep[i] EXCEPT !.col9 = extractID(keep[i].col9, are)]]

\* a plausible slip: -amax:4 for -amax:5 (the end taken from the starts)
AggStep_maxOfStart(acc, r) ==
    IF \E k \in 1..Len(acc) : acc[k].id = r.col9
    THEN [k \in 1..Len(acc) |->
            IF acc[k].id = r.col9
            THEN [acc[k] EXCEPT !.cnt = @ + 1,
                                !.start = Min2(@, r.start),
                                !.end = Max2(@, r.start)]
            ELSE acc[k]]
    ELSE Append(acc, [id |-> r.col9, cnt |-> 1, chr |-> r.chr,
                      start |-> r.start, end |-> r.start,
                      strand |-> r.strand])

\* TA -g9 -acount -afirst:1 -amin:4 -amax:5 -afirst:7, one input row
AggStep(acc, r) ==
    IF \E k \in 1..Len(acc) : acc[k].id = r.col9
    THEN [k \in 1..Len(acc) |->
            IF acc[k].id = r.col9
            THEN [acc[k] EXCEPT !.cnt = @ + 1,
                                !.start = Min2(@, r.start),
                                !.end = Max2(@, r.end)]
            ELSE acc[k]]
    ELSE Append(acc, [id |-> r.col9, cnt |-> 1, chr |-> r.chr,
                      start |-> r.start, end |-> r.end,
                      strand |-> r.strand])

RECURSIVE AggFrom(_, _, _)
AggFrom(acc, t, i) ==
    IF i > Len(t) THEN acc ELSE AggFrom(AggStep(acc, t[i]), t, i + 1)

\* the distinct higher-level features of one side (features1/2.txt)
AggregateFeatures(t) == AggFrom(<<>>, t, 1)

\* FJ -s both -k minOverlap
OverlapPairs(t1, t2) == FJoin(t1, t2, MinOverlap)

\* TF ?IN[10]!=IN[19]
DropSelfHits(rows) == SelectSeq(rows, LAMBDA r : r.a.col9 # r.b.col9)

\* a plausible slip: --k1=19 for --k1=10 (both keys from the right feature)
BucketKeys_noAggregate_k1wrong(rows) ==
    [i \in 1..Len(rows) |-> <<rows[i].b.col9, rows[i].b.col9>>]

\* TB --k1=10 --k2=19: column 9 of the left and of the right feature
BucketKeys_noAggregate(rows) ==
    [i \in 1..Len(rows) |-> <<rows[i].a.col9, rows[i].b.col9>>]

\* TB on the overlap pairs, no null string: every pair annotated with its
\* cluster id, bucket label and counts
Bucketize_noAggregate(rows) ==
    LET ann == TBucketize(BucketKeys_noAggregate(rows), FALSE, Dot)
    IN [i \in 1..Len(rows) |->
          [cid |-> ann[i].cid, label |-> ann[i].label,
           lc |-> ann[i].lc, rc |-> ann[i].rc,
           ovl |-> rows[i].ovl, a |-> rows[i].a, b |-> rows[i].b]]

\* TD --k1=9 against column 13 (left) of the bucketized pairs
LeftSingletons(t, bucketized) ==
    TDiff(t, [i \in 1..Len(t) |-> t[i].col9],
          [i \in 1..Len(bucketized) |-> bucketized[i].a.col9])

\* TD --k1=9 against column 22 (right) of the bucketized pairs
RightSingletons(t, bucketized) ==
    TDiff(t, [i \in 1..Len(t) |-> t[i].col9],
          [i \in 1..Len(bucketized) |-> bucketized[i].b.col9])

\* TA -g10,19 -acount:5 -acount:14, one input row
PairAggStep(acc, r) ==
    IF \E k \in 1..Len(acc) : acc[k].id1 = r.a.col9 /\ acc[k].id2 = r.b.col9
    THEN [k \in 1..Len(acc) |->
            IF acc[k].id1 = r.a.col9 /\ acc[k].id2 = r.b.col9
            THEN [acc[k] EXCEPT !.n1 = @ + 1, !.n2 = @ + 1]
            ELSE acc[k]]
    ELSE Append(acc, [id1 |-> r.a.col9, id2 |-> r.b.col9, n1 |-> 1, n2 |-> 1])

RECURSIVE PairAggFrom(_, _, _)
PairAggFrom(acc, t, i) ==
    IF i > Len(t) THEN acc ELSE PairAggFrom(PairAggStep(acc, t[i]), t, i + 1)

\* the overlapping higher-level pairs with their base-feature counts
AggregatePairs(rows) == PairAggFrom(<<>>, rows, 1)

\* the rows -n. fills in for a missing side
NullGene == [id |-> Dot, cnt |-> DotNum, chr |-> Dot, start |-> DotNum,
             end |-> DotNum, strand |-> "."]

NullOvl == [id1 |-> Dot, id2 |-> Dot, n1 |-> DotNum, n2 |-> DotNum]

\* TJ ovlGenes x genes1, --k1=1 --k2=1 --right -n.
JoinGenes1(ovlGenes, genes1) ==
    LET ix == TJoin([i \in 1..Len(ovlGenes) |-> ovlGenes[i].id1],
                    [j \in 1..Len(genes1) |-> genes1[j].id], FALSE, TRUE)
    IN [n \in 1..Len(ix) |->
          LET o == IF ix[n][1] = 0 THEN NullOvl ELSE ovlGenes[ix[n][1]]
          IN [id1 |-> o.id1, id2 |-> o.id2, n1 |-> o.n1, n2 |-> o.n2,
              g1 |-> genes1[ix[n][2]]]]

\* TJ tmp1 x genes2, --k1=2 --k2=1 --left --right -n.
JoinGenes2(tmp1, genes2) ==
    LET ix == TJoin([i \in 1..Len(tmp1) |-> tmp1[i].id2],
                    [j \in 1..Len(genes2) |-> genes2[j].id], TRUE, TRUE)
    IN [n \in 1..Len(ix) |->
          LET t == IF ix[n][1] = 0
                   THEN [id1 |-> Dot, id2 |-> Dot, n1 |-> DotNum,
                         n2 |-> DotNum, g1 |-> NullGene]
                   ELSE tmp1[ix[n][1]]
          IN [id1 |-> t.id1, id2 |-> t.id2, n1 |-> t.n1, n2 |-> t.n2,
              g1 |-> t.g1,
              g2 |-> IF ix[n][2] = 0 THEN NullGene ELSE genes2[ix[n][2]]]]

\* Python truth of a text cell: the empty string is false
Truthy(x) == x # ""

\* IN[7]=='.' and IN[13] or IN[7]
ChrCoalesce(x, y) == IF x = Dot /\ y # <<>> THEN y ELSE x

\* IN[10]=='.' and IN[16] or IN[16]=='.' and IN[10]
\*    or IN[16]==IN[10] and IN[16] or '???'
Coalesce(x, y) ==
    IF x = "." /\ Truthy(y) THEN y
    ELSE IF y = "." /\ Truthy(x) THEN x
    ELSE IF y = x /\ Truthy(y) THEN y
    ELSE "???"

\* the final TF: the 14 output columns of one joined row
FormatRow(t) ==
    [c1 |-> ChrCoalesce(t.g1.chr, t.g2.chr),
     c2 |-> Coalesce(t.g1.strand, t.g2.strand),
     id1 |-> t.g1.id, n1 |-> t.n1, cnt1 |-> t.g1.cnt,
     start1 |-> t.g1.start, end1 |-> t.g1.end, strand1 |-> t.g1.strand,
     id2 |-> t.g2.id, n2 |-> t.n2, cnt2 |-> t.g2.cnt,
     start2 |-> t.g2.start, end2 |-> t.g2.end, strand2 |-> t.g2.strand]

FormatRows(tmp2) == [i \in 1..Len(tmp2) |-> FormatRow(tmp2[i])]

\* TB --k1=3 --k2=9 -n. : the two id columns, '.' naming no feature
BucketKeys_aggregate(tmp3) ==
    [i \in 1..Len(tmp3) |-> <<tmp3[i].id1, tmp3[i].id2>>]

\* TB on the back-filled rows; a row neither of whose ids names a feature
\* belongs to no cluster and is not written
Bucketize_aggregate(tmp3) ==
    LET ann == TBucketize(BucketKeys_aggregate(tmp3), TRUE, Dot)
        all == [i \in 1..Len(tmp3) |->
                  [cid |-> ann[i].cid, label |-> ann[i].label,
                   lc |-> ann[i].lc, rc |-> ann[i].rc, row |-> tmp3[i]]]
    IN SelectSeq(all, LAMBDA r : r.cid # 0)

---------------------------------------------------------------------------
(* Spec: the pipeline.                                                     *)

NoBuckets == [lab \in {} |-> <<>>]

TBIdle ==
    /\ stream = <<>> /\ stream2 = <<>> /\ tbNull = FALSE /\ tbpos = 0
    /\ uf = TBInit /\ uf2 = TBInit /\ tbout = <<>>

FnIdle == fnIn = [k |-> "none"] /\ fnOut = [k |-> "none"]

NoFilter ==
    [types1 |-> <<>>, notTypes1 |-> <<>>, types2 |-> <<>>, notTypes2 |-> <<>>]

\* the --t1/--nt1/--t2/--nt2 options of a run
FilterChoices ==
    { NoFilter,
      [NoFilter EXCEPT !.types1 = <<"Exon">>],
      [NoFilter EXCEPT !.notTypes1 = <<"cds">>, !.notTypes2 = <<"exon">>] }

\* file1Given: --f1 is there; outDirIsDir: os.path.isdir(outDir)
MkOptions(g1, g2, d, a, n, s, c, f) ==
    [file1Given |-> g1, file2Given |-> g2, outDirIsDir |-> d,
     aggregate |-> a, noAggregate |-> n, noSelfHits |-> s,
     chrMatchLoose |-> c, types1 |-> f.types1, notTypes1 |-> f.notTypes1,
     types2 |-> f.types2, notTypes2 |-> f.notTypes2]

\* the command lines: every combination of the options the validation
\* reads, and for those that pass it every combination of the others
CommandLines ==
    {MkOptions(g1, g2, d, a, n, FALSE, FALSE, NoFilter) :
        g1 \in BOOLEAN, g2 \in BOOLEAN, d \in BOOLEAN,
        a \in BOOLEAN, n \in BOOLEAN}
    \cup {MkOptions(TRUE, TRUE, TRUE, a, ~a, sh, c, f) :
            a \in BOOLEAN, sh \in BOOLEAN, c \in BOOLEAN,
            f \in FilterChoices}

\* the process before GUPipeline(sys.argv), the two input files on disk
Init ==
    /\ options \in CommandLines
    /\ \E a \in InputFiles(LeftUniverse), b \in InputFiles(RightUniverse) :
          fs = ("file1" :> a) @@ ("file2" :> b)
    /\ f1 = "" /\ f2 = "" /\ ovl = "" /\ novl = 0
    /\ pc = "init"
    /\ tempfiles = <<>>
    /\ buckets = NoBuckets
    /\ log = <<>>
    /\ TBIdle /\ FnIdle

\* mkTmp() followed by the tool writing its output there
WriteTmp(name, rows) ==
    /\ tempfiles' = Append(tempfiles, name)
    /\ fs' = (name :> rows) @@ fs

NoOverlapMsg == "No overlapping features detected."

\* a plausible slip: the test for both -n and -a left out
ConfigError_bothModesPass(o) ==
    IF ~o.file1Given \/ ~o.file2Given
    THEN "Must specify both --f1 and --f2."
    ELSE IF ~(o.aggregate \/ o.noAggregate)
    THEN "Must specify either -n or -a."
    ELSE IF ~o.outDirIsDir
    THEN "Output directory does not exist or is not a directory."
    ELSE ""

\* the validation of __init__, in its order; "" when the options pass
ConfigError(o) ==
    IF ~o.file1Given \/ ~o.file2Given
    THEN "Must specify both --f1 and --f2."
    ELSE IF ~(o.aggregate \/ o.noAggregate)
    THEN "Must specify either -n or -a."
    ELSE IF o.aggregate /\ o.noAggregate
    THEN "Cannot specify both -n and -a."
    ELSE IF ~o.outDirIsDir
    THEN "Output directory does not exist or is not a directory."
    ELSE ""

\* GUPipeline.__init__: parser.error prints the message and exits
Construct ==
    /\ pc = "init"
    /\ IF ConfigError(options) # ""
       THEN pc' = "exit" /\ log' = Append(log, ConfigError(options))
       ELSE pc' = "go" /\ log' = log
    /\ UNCHANGED <<options, fs, f1, f2, ovl, novl, tempfiles, buckets>>
    /\ UNCHANGED tbVars /\ UNCHANGED fnVars

\* go(): dispatch on the mode
Go ==
    /\ pc = "go"
    /\ pc' = IF options.aggregate THEN "a_select1" ELSE "n_select1"
    /\ log' = Append(log, "Starting GU pipeline")
    /\ UNCHANGED <<options, fs, f1, f2, ovl, novl, tempfiles, buckets>>
    /\ UNCHANGED tbVars /\ UNCHANGED fnVars

\* a plausible slip: the input file passed on as f1 is put on the list of
\* temporary files
N_Select1_inputListed ==
    /\ pc = "n_select1"
    /\ IF Len(options.types1) > 0 \/ Len(options.notTypes1) > 0
       THEN /\ WriteTmp("tmp_f1",
                        SelectRows(fs["file1"], options.types1,
                                   options.notTypes1, options.chrMatchLoose))
            /\ f1' = "tmp_f1"
       ELSE /\ f1' = "file1"
            /\ tempfiles' = Append(tempfiles, "file1")
            /\ UNCHANGED fs
    /\ pc' = "n_select2"
    /\ UNCHANGED <<options, f2, ovl, novl, buckets, log>>
    /\ UNCHANGED tbVars /\ UNCHANGED fnVars

\* go_noAggregate, file 1: with a type option TF writes the selected rows
\* to a temporary file; without, the input file is the stage input
N_Select1 ==
    /\ pc = "n_select1"
    /\ IF Len(options.types1) > 0 \/ Len(options.notTypes1) > 0
       THEN /\ WriteTmp("tmp_f1",
                        SelectRows(fs["file1"], options.types1,
                                   options.notTypes1, options.chrMatchLoose))
            /\ f1' = "tmp_f1"
       ELSE /\ f1' = "file1"
            /\ UNCHANGED <<fs, tempfiles>>
    /\ pc' = "n_select2"
    /\ UNCHANGED <<options, f2, ovl, novl, buckets, log>>
    /\ UNCHANGED tbVars /\ UNCHANGED fnVars

N_Select2 ==
    /\ pc = "n_select2"
    /\ IF Len(options.types2) > 0 \/ Len(options.notTypes2) > 0
       THEN /\ WriteTmp("tmp_f2",
                        SelectRows(fs["file2"], options.types2,
                                   options.notTypes2, options.chrMatchLoose))
            /\ f2' = "tmp_f2"
       ELSE /\ f2' = "file2"
            /\ UNCHANGED <<fs, tempfiles>>
    /\ pc' = "n_overlap"
    /\ UNCHANGED <<options, f1, ovl, novl, buckets, log>>
    /\ UNCHANGED tbVars /\ UNCHANGED fnVars

\* find overlapping features
N_Overlap ==
    /\ pc = "n_overlap"
    /\ LET rows == OverlapPairs(fs[f1], fs[f2]) IN
          /\ WriteTmp("overlaps", rows)
          /\ novl' = Len(rows)
    /\ ovl' = "overlaps"
    /\ pc' = "n_selfhits"
    /\ UNCHANGED <<options, f1, f2, buckets, log>>
    /\ UNCHANGED tbVars /\ UNCHANGED fnVars

\* if noSelfHits: filter; if novl == 0: log
SelfHitsAndCheck(next) ==
    /\ IF options.noSelfHits
       THEN LET rows == DropSelfHits(fs[ovl]) IN
               /\ WriteTmp("overlaps_nsh", rows)
               /\ ovl' = "overlaps_nsh"
               /\ novl' = Len(rows)
       ELSE UNCHANGED <<fs, tempfiles, ovl, novl>>
    /\ log' = IF novl' = 0 THEN Append(log, NoOverlapMsg) ELSE log
    /\ pc' = next
    /\ UNCHANGED <<options, f1, f2, buckets>>
    /\ UNCHANGED tbVars /\ UNCHANGED fnVars

N_SelfHits == pc = "n_selfhits" /\ SelfHitsAndCheck("n_bucketize")

\* bucketize the pairs
N_Bucketize ==
    /\ pc = "n_bucketize"
    /\ WriteTmp("bucketized", Bucketize_noAggregate(fs[ovl]))
    /\ pc' = "n_sort"
    /\ UNCHANGED <<options, f1, f2, ovl, novl, buckets, log>>
    /\ UNCHANGED tbVars /\ UNCHANGED fnVars

N_Sort ==
    /\ pc = "n_sort"
    /\ WriteTmp("sorted", TSort(fs["bucketized"]))
    /\ pc' = "n_partition"
    /\ UNCHANGED <<options, f1, f2, ovl, novl, buckets, log>>
    /\ UNCHANGED tbVars /\ UNCHANGED fnVars

\* one bucket file per label
N_Partition ==
    /\ pc = "n_partition"
    /\ buckets' = TPartition(fs["sorted"]) @@ buckets
    /\ pc' = "n_diff1"
    /\ UNCHANGED <<options, fs, f1, f2, ovl, novl, tempfiles, log>>
    /\ UNCHANGED tbVars /\ UNCHANGED fnVars

\* template % "1-0"
LeftBucket == "1-0"

\* template % "0-1"
RightBucket == "0-1"

\* the 1-0 bucket: file 1 minus the left features of the pairs
N_Diff1 ==
    /\ pc = "n_diff1"
    /\ buckets' = (LeftBucket :> LeftSingletons(fs[f1], fs["bucketized"]))
                  @@ buckets
    /\ pc' = "n_diff2"
    /\ UNCHANGED <<options, fs, f1, f2, ovl, novl, tempfiles, log>>
    /\ UNCHANGED tbVars /\ UNCHANGED fnVars

\* the 0-1 bucket: file 2 minus the right features of the pairs
N_Diff2 ==
    /\ pc = "n_diff2"
    /\ buckets' = (RightBucket :> RightSingletons(fs[f2], fs["bucketized"]))
                  @@ buckets
    /\ pc' = "finish"
    /\ UNCHANGED <<options, fs, f1, f2, ovl, novl, tempfiles, log>>
    /\ UNCHANGED tbVars /\ UNCHANGED fnVars

\* go_aggregate: select rows of file 1 and extract the feature ids
A_Select1 ==
    /\ pc = "a_select1"
    /\ WriteTmp("tmp_f1", SelectAndExtract(fs["file1"], options.types1,
                                        options.notTypes1, DefaultAre))
    /\ f1' = "tmp_f1"
    /\ pc' = "a_select2"
    /\ UNCHANGED <<options, f2, ovl, novl, buckets, log>>
    /\ UNCHANGED tbVars /\ UNCHANGED fnVars

A_Select2 ==
    /\ pc = "a_select2"
    /\ WriteTmp("tmp_f2", SelectAndExtract(fs["file2"], options.types2,
                                        options.notTypes2, DefaultAre))
    /\ f2' = "tmp_f2"
    /\ pc' = "a_genes1"
    /\ UNCHANGED <<options, f1, ovl, novl, buckets, log>>
    /\ UNCHANGED tbVars /\ UNCHANGED fnVars

\* features1.txt, in the output directory and not a temporary file
A_Genes1 ==
    /\ pc = "a_genes1"
    /\ fs' = ("features1" :> AggregateFeatures(fs[f1])) @@ fs
    /\ pc' = "a_genes2"
    /\ UNCHANGED <<options, f1, f2, ovl, novl, tempfiles, buckets, log>>
    /\ UNCHANGED tbVars /\ UNCHANGED fnVars

A_Genes2 ==
    /\ pc = "a_genes2"
    /\ fs' = ("features2" :> AggregateFeatures(fs[f2])) @@ fs
    /\ pc' = "a_overlap"
    /\ UNCHANGED <<options, f1, f2, ovl, novl, tempfiles, buckets, log>>
    /\ UNCHANGED tbVars /\ UNCHANGED fnVars

A_Overlap ==
    /\ pc = "a_overlap"
    /\ LET rows == OverlapPairs(fs[f1], fs[f2]) IN
          /\ WriteTmp("ovlExons", rows)
          /\ novl' = Len(rows)
    /\ ovl' = "ovlExons"
    /\ pc' = "a_selfhits"
    /\ UNCHANGED <<options, f1, f2, buckets, log>>
    /\ UNCHANGED tbVars /\ UNCHANGED fnVars

A_SelfHits == pc = "a_selfhits" /\ SelfHitsAndCheck("a_ovlgenes")

A_OvlGenes ==
    /\ pc = "a_ovlgenes"
    /\ WriteTmp("ovlGenes", AggregatePairs(fs[ovl]))
    /\ pc' = "a_join1"
    /\ UNCHANGED <<options, f1, f2, ovl, novl, buckets, log>>
    /\ UNCHANGED tbVars /\ UNCHANGED fnVars

A_Join1 ==
    /\ pc = "a_join1"
    /\ WriteTmp("tmp1", JoinGenes1(fs["ovlGenes"], fs["features1"]))
    /\ pc' = "a_join2"
    /\ UNCHANGED <<options, f1, f2, ovl, novl, buckets, log>>
    /\ UNCHANGED tbVars /\ UNCHANGED fnVars

A_Join2 ==
    /\ pc = "a_join2"
    /\ WriteTmp("tmp2", JoinGenes2(fs["tmp1"], fs["features2"]))
    /\ pc' = "a_format"
    /\ UNCHANGED <<options, f1, f2, ovl, novl, buckets, log>>
    /\ UNCHANGED tbVars /\ UNCHANGED fnVars

A_Format ==
    /\ pc = "a_format"
    /\ WriteTmp("tmp3", FormatRows(fs["tmp2"]))
    /\ pc' = "a_bucketize"
    /\ UNCHANGED <<options, f1, f2, ovl, novl, buckets, log>>
    /\ UNCHANGED tbVars /\ UNCHANGED fnVars

\* bucketize the overlapping genes, one file per bucket
A_Bucketize ==
    /\ pc = "a_bucketize"
    /\ buckets' = TPartition(Bucketize_aggregate(fs["tmp3"])) @@ buckets
    /\ pc' = "finish"
    /\ UNCHANGED <<options, fs, f1, f2, ovl, novl, tempfiles, log>>
    /\ UNCHANGED tbVars /\ UNCHANGED fnVars

\* a plausible slip: go() without the cleanupTempFiles call
Finish_noCleanup ==
    /\ pc = "finish"
    /\ log' = Append(log, "Pipeline completed.")
    /\ pc' = "done"
    /\ UNCHANGED <<options, fs, f1, f2, ovl, novl, tempfiles, buckets>>
    /\ UNCHANGED tbVars /\ UNCHANGED fnVars

\* go(): "Pipeline completed.", then cleanupTempFiles
Finish ==
    /\ pc = "finish"
    /\ log' = Append(log, "Pipeline completed.")
    /\ fs' = [n \in DOMAIN fs \ Range(tempfiles) |-> fs[n]]
    /\ pc' = "done"
    /\ UNCHANGED <<options, f1, f2, ovl, novl, tempfiles, buckets>>
    /\ UNCHANGED tbVars /\ UNCHANGED fnVars

\* a tool raises: execStep has no handler, the exception leaves go() and
\* the process ends; what earlier stages wrote stays as it is
StageFails ==
    /\ pc \in {"n_select1", "n_select2", "n_overlap", "n_selfhits", "n_bucketize", "n_sort",
               "n_partition", "n_diff1", "n_diff2",
               "a_select1", "a_select2", "a_genes1", "a_genes2", "a_overlap",
               "a_selfhits", "a_ovlgenes", "a_join1", "a_join2", "a_format",
               "a_bucketize"}
    /\ pc = "n_select1" =>
          Len(options.types1) > 0 \/ Len(options.notTypes1) > 0
    /\ pc = "n_select2" =>
          Len(options.types2) > 0 \/ Len(options.notTypes2) > 0
    /\ pc' = "aborted"
    /\ UNCHANGED <<options, fs, f1, f2, ovl, novl, tempfiles, buckets, log>>
    /\ UNCHANGED tbVars /\ UNCHANGED fnVars

Next ==
    \/ Construct
    \/ Go
    \/ N_Select1 \/ N_Select2 \/ N_Overlap \/ N_SelfHits \/ N_Bucketize
    \/ N_Sort \/ N_Partition \/ N_Diff1 \/ N_Diff2
    \/ A_Select1 \/ A_Select2 \/ A_Genes1 \/ A_Genes2 \/ A_Overlap
    \/ A_SelfHits \/ A_OvlGenes \/ A_Join1 \/ A_Join2 \/ A_Format
    \/ A_Bucketize
    \/ StageFails
    \/ Finish

Spec == Init /\ [][Next]_vars

---------------------------------------------------------------------------
(* SpecTB: the cluster builder on its own.  One stream of key pairs is fed *)
(* pair by pair in an arbitrary order and, beside it, in a canonical       *)
(* order; the second pass then annotates both.                             *)

PipeIdle ==
    /\ options = MkOptions(FALSE, FALSE, FALSE, FALSE, FALSE, FALSE, FALSE,
                           NoFilter)
    /\ fs = [n \in {} |-> <<>>]
    /\ f1 = "" /\ f2 = "" /\ ovl = "" /\ novl = 0
    /\ pc = "idle"
    /\ tempfiles = <<>>
    /\ buckets = NoBuckets
    /\ log = <<>>

\* the keys a stream is drawn from; '.' is a key like any other unless the
\* null string is in force
TBKeys == << <<"a">>, <<"b">>, Dot >>

TBKeyPairs ==
    [n \in 1..(Len(TBKeys) * Len(TBKeys)) |->
       <<TBKeys[((n - 1) \div Len(TBKeys)) + 1],
         TBKeys[((n - 1) % Len(TBKeys)) + 1]>>]

\* the pairs of s in the order of TBKeyPairs
Canonical(s) ==
    Flatten([n \in 1..Len(TBKeyPairs) |->
               SelectSeq(s, LAMBDA x : x = TBKeyPairs[n])])

InitTB ==
    /\ PipeIdle /\ FnIdle
    /\ stream2 \in SeqsUpTo(Range(TBKeyPairs), MaxPairs)
    /\ stream = Canonical(stream2)
    /\ tbNull \in BOOLEAN
    /\ tbpos = 0
    /\ uf = TBInit /\ uf2 = TBInit
    /\ tbout = <<>>

\* first pass: the next pair of each stream
TBStep ==
    /\ tbpos < Len(stream)
    /\ uf' = TBAdd(uf, stream[tbpos + 1], tbpos + 1, tbNull, Dot)
    /\ uf2' = TBAdd(uf2, stream2[tbpos + 1], tbpos + 1, tbNull, Dot)
    /\ tbpos' = tbpos + 1
    /\ UNCHANGED <<stream, stream2, tbNull, tbout>>
    /\ UNCHANGED pipeVars /\ UNCHANGED fnVars

\* second pass over both streams
TBFinish ==
    /\ tbpos = Len(stream)
    /\ tbout = <<>>
    /\ tbout' = <<TBAssign(uf, stream, tbNull, Dot),
                  TBAssign(uf2, stream2, tbNull, Dot)>>
    /\ UNCHANGED <<stream, stream2, tbNull, tbpos, uf, uf2>>
    /\ UNCHANGED pipeVars /\ UNCHANGED fnVars

NextTB == TBStep \/ TBFinish

SpecTB == InitTB /\ [][NextTB]_vars

---------------------------------------------------------------------------
(* SpecFn: the pure functions, each applied once to an input drawn from a  *)
(* bounded set.                                                            *)

Alphabet == {"P", "p", "=", "a", "A", ";"}

\* P=(?P<id>[^;]+)   (?P<id>a+)   p(?P<id>[a=]+)
Patterns ==
    { [pre |-> <<"P", "=">>, neg |-> TRUE, set |-> {";"}],
      [pre |-> <<>>, neg |-> FALSE, set |-> {"a"}],
      [pre |-> <<"p">>, neg |-> FALSE, set |-> {"a", "="}] }

\* the strand column of GFF
Strands == {"+", "-", "."}

\* the two strand cells of a joined row; a filled cell is one the outer
\* join wrote for a missing side, and holds '.'; a row has at least one side
CoalesceInputs ==
    {c \in [x : Strands, y : Strands, xFilled : BOOLEAN, yFilled : BOOLEAN] :
        /\ c.xFilled => c.x = "."
        /\ c.yFilled => c.y = "."
        /\ ~(c.xFilled /\ c.yFilled)}

AggIntervals == {<<1, 1>>, <<1, 3>>, <<2, 2>>}

\* rows of a select step's output: column 9 is the extracted id
AggRecords ==
    {[chr |-> c, type |-> "exon", start |-> iv[1], end |-> iv[2],
      strand |-> sd, col9 |-> id] :
        c \in {<<"1">>, <<"2">>}, iv \in AggIntervals, sd \in {"+", "-"},
        id \in {<<"a">>, <<"b">>}}

\* pattern texts: MGI:[0-9]+ and the like, with and without the group
PatternTexts ==
    { <<"x">>, <<GroupOpen, "x", ")">>, <<"y=", GroupOpen, "x", ")", ";">> }

\* a side-specific pattern option: not given, or a pattern text
SideOptions == {NotGiven} \cup {[given |-> TRUE, text |-> t] : t \in PatternTexts}

InitFn ==
    /\ PipeIdle /\ TBIdle
    /\ fnIn \in
          {[k |-> "extract", text |-> t, patt |-> p] :
              t \in SeqsUpTo(Alphabet, MaxText), p \in Patterns}
          \cup {[k |-> "groom", ire |-> i, are |-> a, ire1 |-> i1,
                  ire2 |-> i2, are1 |-> a1, are2 |-> a2] :
                  i \in PatternTexts, a \in PatternTexts,
                  i1 \in SideOptions, i2 \in SideOptions,
                  a1 \in SideOptions, a2 \in SideOptions}
          \cup {[k |-> "coalesce", c |-> c] : c \in CoalesceInputs}
          \cup {[k |-> "aggregate", recs |-> t] :
                  t \in SeqsUpTo(AggRecords, MaxGroup)}
    /\ fnOut = [k |-> "none"]

ApplyExtractID ==
    /\ fnIn.k = "extract" /\ fnOut.k = "none"
    /\ fnOut' = [k |-> "extract", v |-> extractID(fnIn.text, fnIn.patt)]
    /\ UNCHANGED fnIn /\ UNCHANGED pipeVars /\ UNCHANGED tbVars

ApplyCoalesce ==
    /\ fnIn.k = "coalesce" /\ fnOut.k = "none"
    /\ fnOut' = [k |-> "coalesce", v |-> Coalesce(fnIn.c.x, fnIn.c.y)]
    /\ UNCHANGED fnIn /\ UNCHANGED pipeVars /\ UNCHANGED tbVars

ApplyAggregate ==
    /\ fnIn.k = "aggregate" /\ fnOut.k = "none"
    /\ fnOut' = [k |-> "aggregate", v |-> AggregateFeatures(fnIn.recs)]
    /\ UNCHANGED fnIn /\ UNCHANGED pipeVars /\ UNCHANGED tbVars

\* the four groomRe calls of __init__
ApplyGroomRe ==
    /\ fnIn.k = "groom" /\ fnOut.k = "none"
    /\ fnOut' = [k |-> "groom",
                 ire1 |-> groomRe(fnIn.ire1, fnIn.ire),
                 ire2 |-> groomRe(fnIn.ire2, fnIn.ire),
                 are1 |-> groomRe(fnIn.are1, fnIn.are),
                 are2 |-> groomRe(fnIn.are2, fnIn.are)]
    /\ UNCHANGED fnIn /\ UNCHANGED pipeVars /\ UNCHANGED tbVars

NextFn == ApplyExtractID \/ ApplyCoalesce \/ ApplyAggregate \/ ApplyGroomRe

SpecFn == InitFn /\ [][NextFn]_vars

---------------------------------------------------------------------------
(* The claims.                                                             *)

ClusterLabels == {"1-1", "1-n", "n-1", "n-m"}

AllLabels == ClusterLabels \cup {"1-0", "0-1"}

BucketRows(lab) == IF lab \in DOMAIN buckets THEN buckets[lab] ELSE <<>>

\* the terminal stage of the selected mode has run; temporaries still exist
Completed == pc = "finish"

\* no-aggregate mode: the feature r is the left (right) feature of a row of
\* a cluster bucket, or a line of a singleton bucket
LeftInBucket(r, lab) ==
    IF lab \in ClusterLabels
    THEN \E k \in 1..Len(BucketRows(lab)) : BucketRows(lab)[k].a = r
    ELSE \E k \in 1..Len(BucketRows(lab)) : BucketRows(lab)[k] = r

RightInBucket(r, lab) ==
    IF lab \in ClusterLabels
    THEN \E k \in 1..Len(BucketRows(lab)) : BucketRows(lab)[k].b = r
    ELSE \E k \in 1..Len(BucketRows(lab)) : BucketRows(lab)[k] = r

\* C1: in no-aggregate mode, after the last stage, every record of the
\* filtered left input is in exactly one bucket file and the left-record
\* occurrences over all bucket files number the filtered left records; the
\* same for the right records.
C1_EveryRecordInOneBucket ==
    (Completed /\ ~options.aggregate) =>
       /\ \A i \in 1..Len(fs[f1]) :
             Cardinality({lab \in AllLabels : LeftInBucket(fs[f1][i], lab)}) = 1
       /\ \A i \in 1..Len(fs[f2]) :
             Cardinality({lab \in AllLabels : RightInBucket(fs[f2][i], lab)}) = 1
       /\ Cardinality({x \in (1..Len(fs[f1])) \X AllLabels :
                          LeftInBucket(fs[f1][x[1]], x[2])}) = Len(fs[f1])
       /\ Cardinality({x \in (1..Len(fs[f2])) \X AllLabels :
                          RightInBucket(fs[f2][x[1]], x[2])}) = Len(fs[f2])

\* two overlap pairs share their left key or their right key
Linked(O, i, j) ==
    O[i].a.col9 = O[j].a.col9 \/ O[i].b.col9 = O[j].b.col9

RECURSIVE Grow(_, _, _)
Grow(O, S, n) ==
    IF n = 0 THEN S
    ELSE Grow(O, S \cup {j \in 1..Len(O) : \E i \in S : Linked(O, i, j)}, n - 1)

\* the pairs connected to pair i through a chain of linked pairs
Component(O, i) == Grow(O, {i}, Len(O))

\* C2: the cluster ids the bucketize step assigns partition the overlap
\* pairs it was fed: every pair is annotated with one cluster id, two pairs
\* have the same id exactly when a chain of pairs sharing a left or a right
\* key connects them, and a cluster's two counts are its numbers of
\* distinct left keys and of distinct right keys.
C2_ClusterIdsPartitionPairs ==
    (~options.aggregate /\ "bucketized" \in DOMAIN fs) =>
       LET O == fs[ovl]
           B == fs["bucketized"]
       IN /\ Len(B) = Len(O)
          /\ \A i \in 1..Len(O) :
                /\ B[i].a = O[i].a /\ B[i].b = O[i].b
                /\ B[i].cid > 0
                /\ \A j \in 1..Len(O) :
                      (B[i].cid = B[j].cid) <=> (j \in Component(O, i))
                /\ B[i].lc =
                      Cardinality({O[j].a.col9 : j \in Component(O, i)})
                /\ B[i].rc =
                      Cardinality({O[j].b.col9 : j \in Component(O, i)})

\* C2's case: two pairs that share no key are in one cluster through a
\* chain of other pairs
C2_Witness ==
    /\ ~options.aggregate /\ "bucketized" \in DOMAIN fs
    /\ LET O == fs[ovl]
           B == fs["bucketized"]
       IN \E i, j \in 1..Len(O) :
             B[i].cid = B[j].cid /\ ~Linked(O, i, j)

\* C3: feeding the cluster builder the same pairs in another order changes
\* neither which pairs are grouped together, nor a pair's two counts, nor
\* its label, nor whether it names a cluster at all; only the cluster id
\* values may differ.
C3_PairOrderIrrelevant ==
    (tbout # <<>>) =>
       LET A == tbout[1]
           B == tbout[2]
       IN \A i, j \in 1..Len(stream) : \A m, n \in 1..Len(stream2) :
             (stream[i] = stream2[m] /\ stream[j] = stream2[n]) =>
                /\ (A[i].cid = A[j].cid) <=> (B[m].cid = B[n].cid)
                /\ (A[i].cid = 0) <=> (B[m].cid = 0)
                /\ A[i].lc = B[m].lc
                /\ A[i].rc = B[m].rc
                /\ A[i].label = B[m].label

\* C3's case: the second order's first two pairs share no key and a later
\* pair merges their clusters, and a pair's cluster id differs between the
\* two orders
C3_Witness ==
    /\ tbout # <<>>
    /\ stream # stream2
    /\ Len(stream2) >= 3
    /\ stream2[1][1] # stream2[2][1]
    /\ stream2[1][2] # stream2[2][2]
    /\ tbout[2][1].cid # 0
    /\ tbout[2][1].cid = tbout[2][2].cid
    /\ \E i \in 1..Len(stream) :
          stream[i] = stream2[1] /\ tbout[1][i].cid # tbout[2][1].cid

\* the rows of all bucket files
OutputRows ==
    UNION {{<<lab, k>> : k \in 1..Len(BucketRows(lab))} : lab \in AllLabels}

\* aggregate mode: the left (right) entity takes part in no overlap
LeftUnpartnered(e) ==
    \A k \in 1..Len(fs["ovlGenes"]) : fs["ovlGenes"][k].id1 # e.id

RightUnpartnered(e) ==
    \A k \in 1..Len(fs["ovlGenes"]) : fs["ovlGenes"][k].id2 # e.id

\* no-aggregate mode: the left (right) record is in no overlap pair
LeftAlone(r) == \A k \in 1..Len(fs[ovl]) : fs[ovl][k].a # r

RightAlone(r) == \A k \in 1..Len(fs[ovl]) : fs[ovl][k].b # r

\* C4: every row of a cluster bucket file carries the label its cluster's
\* two counts give by the table (1,1) 1-1, (1,>1) 1-n, (>1,1) n-1,
\* (>1,>1) n-m, and sits in the file of that label; rows of one cluster
\* carry one label; a left member with no right overlap is in the 1-0
\* bucket and a right member with no left overlap in the 0-1 bucket.
C4_LabelFromCounts ==
    Completed =>
       /\ DOMAIN buckets \subseteq AllLabels
       /\ \A x \in OutputRows :
             LET r == BucketRows(x[1])[x[2]] IN
             (options.aggregate \/ x[1] \in ClusterLabels) =>
                /\ r.label = x[1]
                /\ r.label = BucketLabel(r.lc, r.rc)
                /\ \A y \in OutputRows :
                      LET q == BucketRows(y[1])[y[2]] IN
                      (options.aggregate \/ y[1] \in ClusterLabels) =>
                         (q.cid = r.cid => q.label = r.label)
       /\ IF options.aggregate
          THEN /\ \A i \in 1..Len(fs["features1"]) :
                     LeftUnpartnered(fs["features1"][i]) =>
                        \E k \in 1..Len(BucketRows("1-0")) :
                           BucketRows("1-0")[k].row.id1 = fs["features1"][i].id
               /\ \A i \in 1..Len(fs["features2"]) :
                     RightUnpartnered(fs["features2"][i]) =>
                        \E k \in 1..Len(BucketRows("0-1")) :
                           BucketRows("0-1")[k].row.id2 = fs["features2"][i].id
          ELSE /\ \A i \in 1..Len(fs[f1]) :
                     LeftAlone(fs[f1][i]) => LeftInBucket(fs[f1][i], "1-0")
               /\ \A i \in 1..Len(fs[f2]) :
                     RightAlone(fs[f2][i]) => RightInBucket(fs[f2][i], "0-1")

\* C5: a run whose overlap stage, after the self-hit filter, left no pair
\* has logged that and completed, with every left record (entity) in the
\* 1-0 bucket and every right record (entity) in the 0-1 bucket.
C5_NoOverlapsRunsToCompletion ==
    /\ (pc = "done" /\ novl = 0) =>
          /\ NoOverlapMsg \in Range(log)
          /\ log[Len(log)] = "Pipeline completed."
    /\ (Completed /\ novl = 0) =>
       /\ NoOverlapMsg \in Range(log)
       /\ IF options.aggregate
          THEN /\ \A i \in 1..Len(fs["features1"]) :
                     \E k \in 1..Len(BucketRows("1-0")) :
                        BucketRows("1-0")[k].row.id1 = fs["features1"][i].id
               /\ \A i \in 1..Len(fs["features2"]) :
                     \E k \in 1..Len(BucketRows("0-1")) :
                        BucketRows("0-1")[k].row.id2 = fs["features2"][i].id
          ELSE /\ \A i \in 1..Len(fs[f1]) :
                     LeftInBucket(fs[f1][i], "1-0")
               /\ \A i \in 1..Len(fs[f2]) :
                     RightInBucket(fs[f2][i], "0-1")

\* the right-side (left-side) columns and the tally columns of a
\* back-filled row hold the placeholder
RightSideBlank(r) ==
    /\ r.id2 = Dot /\ r.n1 = DotNum /\ r.n2 = DotNum
    /\ r.cnt2 = DotNum /\ r.start2 = DotNum /\ r.end2 = DotNum
    /\ r.strand2 = "."

LeftSideBlank(r) ==
    /\ r.id1 = Dot /\ r.n1 = DotNum /\ r.n2 = DotNum
    /\ r.cnt1 = DotNum /\ r.start1 = DotNum /\ r.end1 = DotNum
    /\ r.strand1 = "."

\* C6: the back-filled output has a row for every left entity and a row
\* for every right entity; the rows of an entity without partner hold the
\* placeholder in every column of the missing side and of the tally.
C6_BackFillCoversEveryEntity ==
    (options.aggregate /\ "tmp3" \in DOMAIN fs) =>
       LET T == fs["tmp3"] IN
       /\ \A i \in 1..Len(fs["features1"]) :
             LET e == fs["features1"][i] IN
             /\ \E k \in 1..Len(T) : T[k].id1 = e.id
             /\ LeftUnpartnered(e) =>
                   \A k \in 1..Len(T) : T[k].id1 = e.id => RightSideBlank(T[k])
       /\ \A i \in 1..Len(fs["features2"]) :
             LET e == fs["features2"][i] IN
             /\ \E k \in 1..Len(T) : T[k].id2 = e.id
             /\ RightUnpartnered(e) =>
                   \A k \in 1..Len(T) : T[k].id2 = e.id => LeftSideBlank(T[k])

\* C7: in aggregate mode a left entity that overlaps no right entity has
\* exactly one back-filled row, that row's right-side fields are all the
\* placeholder, and the row is in the 1-0 bucket and in no other bucket,
\* whatever the right identifiers are.
C7_UnpartneredLeftEntityOnlyIn10 ==
    (Completed /\ options.aggregate) =>
       LET T == fs["tmp3"] IN
       \A i \in 1..Len(fs["features1"]) :
          LET e == fs["features1"][i] IN
          LeftUnpartnered(e) =>
             /\ Cardinality({k \in 1..Len(T) : T[k].id1 = e.id}) = 1
             /\ \A k \in 1..Len(T) : T[k].id1 = e.id => RightSideBlank(T[k])
             /\ \E k \in 1..Len(BucketRows("1-0")) :
                   BucketRows("1-0")[k].row.id1 = e.id
             /\ \A x \in OutputRows :
                   BucketRows(x[1])[x[2]].row.id1 = e.id => x[1] = "1-0"

\* C8: the coalesce of a field's left-joined value x and right-joined
\* value y is the other value when exactly one of them is the placeholder
\* the outer join filled in, the common value when they are equal, and '???'
\* exactly when they differ and neither is the placeholder; a genuine '.'
\* (an unstranded feature) counts as a value, not as the placeholder.
C8_CoalescePicksGenuineValue ==
    (fnOut.k = "coalesce") =>
       LET c == fnIn.c IN
       fnOut.v = IF c.xFilled THEN c.y
                 ELSE IF c.yFilled THEN c.x
                 ELSE IF c.x = c.y THEN c.x
                 ELSE "???"

\* C9: the aggregate of one side's records has exactly one entity per
\* distinct id; its member count is the number of records with the id, its
\* start their least start, its end their greatest end, its chromosome and
\* strand those of the first of them; so start <= end and count >= 1, and
\* no records give no entities.
C9_OneEntityPerId ==
    (fnOut.k = "aggregate") =>
       LET t == fnIn.recs
           g == fnOut.v
           Members(id) == {i \in 1..Len(t) : t[i].col9 = id}
       IN /\ {g[k].id : k \in 1..Len(g)} = {t[i].col9 : i \in 1..Len(t)}
          /\ Len(g) = Cardinality({t[i].col9 : i \in 1..Len(t)})
          /\ (t = <<>>) => (g = <<>>)
          /\ \A k \in 1..Len(g) :
                LET M == Members(g[k].id) IN
                /\ g[k].cnt = Cardinality(M)
                /\ g[k].cnt >= 1
                /\ \E i \in M : t[i].start = g[k].start
                /\ \A i \in M : g[k].start <= t[i].start
                /\ \E i \in M : t[i].end = g[k].end
                /\ \A i \in M : g[k].end >= t[i].end
                /\ g[k].start <= g[k].end
                /\ \E i \in M :
                      /\ \A j \in M : i <= j
                      /\ g[k].chr = t[i].chr
                      /\ g[k].strand = t[i].strand

\* C9's case: two records of one id, the later one starting first, ending
\* first and on another chromosome and strand
C9_Witness ==
    /\ fnOut.k = "aggregate"
    /\ Len(fnIn.recs) = 2
    /\ Len(fnOut.v) = 1
    /\ fnIn.recs[2].start < fnIn.recs[1].start
    /\ fnIn.recs[2].end < fnIn.recs[1].end
    /\ fnIn.recs[2].chr # fnIn.recs[1].chr
    /\ fnIn.recs[2].strand # fnIn.recs[1].strand
    /\ fnOut.v[1].cnt = 2

\* two characters equal up to letter case
SameLetter(c, d) ==
    c = d \/ {c, d} = {"P", "p"} \/ {c, d} = {"A", "a"}

\* the character is one the pattern's group accepts, ignoring case
GroupChar(patt, c) ==
    IF patt.neg THEN \A d \in patt.set : ~SameLetter(d, c)
                ELSE \E d \in patt.set : SameLetter(d, c)

\* the positions of text at which an occurrence of the pattern starts
MatchStarts(patt, text) ==
    {i \in 1..Len(text) :
        /\ i + Len(patt.pre) <= Len(text)
        /\ \A k \in 1..Len(patt.pre) : SameLetter(text[i + k - 1], patt.pre[k])
        /\ GroupChar(patt, text[i + Len(patt.pre)])}

\* C10: extractID returns text unchanged when the pattern occurs nowhere in
\* it, letter case ignored; otherwise it returns what the group id captures
\* in the leftmost occurrence, the longest run of group characters after
\* the prefix; it returns a value for every text and changes nothing else.
C10_ExtractIDLeftmostIgnoringCase ==
    (fnOut.k = "extract") =>
       LET text == fnIn.text
           patt == fnIn.patt
           S == MatchStarts(patt, text)
       IN /\ PipeIdle /\ TBIdle
          /\ IF S = {} THEN fnOut.v = text
             ELSE LET i == MinOf(S)
                      b == i + Len(patt.pre)
                  IN \E e \in b..Len(text) :
                        /\ \A k \in b..e : GroupChar(patt, text[k])
                        /\ e < Len(text) => ~GroupChar(patt, text[e + 1])
                        /\ fnOut.v = SubSeq(text, b, e)

\* C10's case: the leftmost occurrence starts after the first character,
\* matches only when case is ignored, and a part of text is returned
C10_Witness ==
    /\ fnOut.k = "extract"
    /\ fnIn.patt.pre # <<>>
    /\ MatchStarts(fnIn.patt, fnIn.text) # {}
    /\ LET i == MinOf(MatchStarts(fnIn.patt, fnIn.text)) IN
          i > 1 /\ fnIn.text[i] # fnIn.patt.pre[1]
    /\ fnOut.v # fnIn.text

\* the number of groups named id a pattern text opens
GroupCount(r) == Cardinality({i \in 1..Len(r) : r[i] = GroupOpen})

\* the pattern inside the r'...' quoting of a groomed option
Unquoted(r) == SubSeq(r, 2, Len(r) - 1)

\* the groomed option is made from the side's own pattern when that was
\* given and from the shared one otherwise; a source with the group is
\* kept as it is, one without is wrapped whole in the group
GroomedFrom(g, own, shared) ==
    LET src == IF own.given THEN own.text ELSE shared IN
    /\ GroupCount(g) >= 1
    /\ g[1] = "r'" /\ g[Len(g)] = "'"
    /\ IF GroupCount(src) >= 1
       THEN Unquoted(g) = src
       ELSE /\ Len(Unquoted(g)) = Len(src) + 2
            /\ Unquoted(g)[1] = GroupOpen
            /\ Unquoted(g)[Len(src) + 2] = ")"
            /\ SubSeq(Unquoted(g), 2, Len(src) + 1) = src

\* C11: after grooming, each of ire1, ire2, are1, are2 has a group named
\* id: a pattern without one is wrapped whole in it, a pattern with one is
\* left as it is, and a side's pattern that was not given is the shared
\* pattern (ire, are).
C11_GroomedPatternsHaveIdGroup ==
    (fnOut.k = "groom") =>
       /\ GroomedFrom(fnOut.ire1, fnIn.ire1, fnIn.ire)
       /\ GroomedFrom(fnOut.ire2, fnIn.ire2, fnIn.ire)
       /\ GroomedFrom(fnOut.are1, fnIn.are1, fnIn.are)
       /\ GroomedFrom(fnOut.are2, fnIn.are2, fnIn.are)

\* C11's case: are1 is not given and the shared pattern has no group,
\* are2 is given with the group, ire1 is given without
C11_Witness ==
    /\ fnOut.k = "groom"
    /\ ~fnIn.are1.given /\ GroupCount(fnIn.are) = 0
    /\ fnIn.are2.given /\ GroupCount(fnIn.are2.text) = 1
    /\ fnIn.ire1.given /\ GroupCount(fnIn.ire1.text) = 0
    /\ GroupCount(fnOut.are1) = 1 /\ GroupCount(fnOut.are2) = 1

\* the lines of an input file the type options select, in file order
Selected1 ==
    SelectSeq(fs["file1"],
              LAMBDA r : TypeSelected(r, options.types1, options.notTypes1))

Selected2 ==
    SelectSeq(fs["file2"],
              LAMBDA r : TypeSelected(r, options.types2, options.notTypes2))

\* the file the overlap stage wrote, before any self-hit filter
RawOverlaps == IF options.aggregate THEN "ovlExons" ELSE "overlaps"

\* two chromosome names that the run's chromosome matching takes for one
ChrMatches(c, d) ==
    IF options.chrMatchLoose THEN StripChr(c) = StripChr(d) ELSE c = d

\* C12: with -C, in either mode and with or without a type option, the
\* chromosome of every record fed to the overlap stage has lost its leading
\* chr/chrom/chromosome, and two selected features pair exactly when their
\* chromosome names are equal up to that prefix, their strands are equal
\* and they overlap by the minimum; without -C the names must be equal.
C12_LooseChromosomeMatching ==
    (RawOverlaps \in DOMAIN fs) =>
       /\ Len(fs[f1]) = Len(Selected1) /\ Len(fs[f2]) = Len(Selected2)
       /\ options.chrMatchLoose =>
             /\ \A i \in 1..Len(fs[f1]) : fs[f1][i].chr = StripChr(Selected1[i].chr)
             /\ \A j \in 1..Len(fs[f2]) : fs[f2][j].chr = StripChr(Selected2[j].chr)
       /\ \A i \in 1..Len(fs[f1]) : \A j \in 1..Len(fs[f2]) :
             (\E k \in 1..Len(fs[RawOverlaps]) :
                 /\ fs[RawOverlaps][k].a = fs[f1][i]
                 /\ fs[RawOverlaps][k].b = fs[f2][j])
             <=> /\ ChrMatches(Selected1[i].chr, Selected2[j].chr)
                 /\ Selected1[i].strand = Selected2[j].strand
                 /\ Overlap(Selected1[i], Selected2[j]) >= MinOverlap

\* the command line has one of the configuration errors
Misconfigured ==
    \/ ~options.file1Given \/ ~options.file2Given
    \/ ~options.outDirIsDir
    \/ options.aggregate = options.noAggregate

\* C13: with a missing --f1 or --f2, an output directory that is none, or
\* neither or both of -a and -n, the run ends in the constructor with the
\* error message: no stage has run, there is no temporary file and no
\* bucket file, and nothing but the two input files is on disk.
C13_ConfigErrorBeforeAnyStage ==
    Misconfigured =>
       /\ pc \in {"init", "exit"}
       /\ pc = "exit" => (Len(log) = 1 /\ log[1] # "Starting GU pipeline")
       /\ tempfiles = <<>>
       /\ buckets = NoBuckets
       /\ DOMAIN fs = {"file1", "file2"}
       /\ f1 = "" /\ f2 = "" /\ ovl = ""

\* C13's case: both -a and -n were given, all else being in order, and the
\* constructor has ended the run
C13_Witness ==
    /\ pc = "exit"
    /\ options.aggregate /\ options.noAggregate
    /\ options.file1Given /\ options.file2Given /\ options.outDirIsDir

\* C14: after a run that completes, in either mode, the 1-0 and the 0-1
\* bucket file exist, with or without records, and a bucket file of any
\* other label exists only with at least one record.
C14_SingletonBucketsAlwaysExist ==
    (pc \in {"finish", "done"}) =>
       /\ "1-0" \in DOMAIN buckets
       /\ "0-1" \in DOMAIN buckets
       /\ \A lab \in DOMAIN buckets \ {"1-0", "0-1"} : buckets[lab] # <<>>

\* C15: when a stage fails, no part of an output set (no bucket file, no
\* entity file) is left in the output directory.
C15_NoPartialOutputSet ==
    (pc = "aborted") =>
       /\ buckets = NoBuckets
       /\ "features1" \notin DOMAIN fs
       /\ "features2" \notin DOMAIN fs

\* the names in the list of files to delete
Temps == Range(tempfiles)

\* C16: a temporary file disappears only in the step that ends a completed
\* run, after the last stage; that step deletes every file mkTmp returned,
\* each listed once and each still there to delete; a stage that aborts the
\* run deletes nothing.
C16_CleanupOnlyAfterLastStage ==
    [][ /\ (\E n \in Temps : n \in DOMAIN fs /\ n \notin DOMAIN fs')
           => (pc = "finish" /\ pc' = "done")
        /\ (pc = "finish" /\ pc' = "done") =>
              /\ \A n \in Temps : n \in DOMAIN fs /\ n \notin DOMAIN fs'
              /\ \A i, j \in 1..Len(tempfiles) :
                    i # j => tempfiles[i] # tempfiles[j]
        /\ (pc' = "aborted") => (fs' = fs /\ tempfiles' = tempfiles)
        /\ \A n \in DOMAIN fs : n \notin DOMAIN fs' => n \in Temps
      ]_vars

\* C16's case: a completed run that made temporary files and deleted them
C16_Witness ==
    /\ pc = "done"
    /\ Len(tempfiles) >= 3
    /\ \A n \in Temps : n \notin DOMAIN fs
    /\ buckets # NoBuckets

\* the raw overlap pairs of the left (right) record or entity key k, and
\* whether k has such pairs and all of them are self-hits
OnlySelfHitsLeft(k) ==
    LET O == fs[RawOverlaps] IN
    /\ \E n \in 1..Len(O) : O[n].a.col9 = k
    /\ \A n \in 1..Len(O) : O[n].a.col9 = k => O[n].b.col9 = k

OnlySelfHitsRight(k) ==
    LET O == fs[RawOverlaps] IN
    /\ \E n \in 1..Len(O) : O[n].b.col9 = k
    /\ \A n \in 1..Len(O) : O[n].b.col9 = k => O[n].a.col9 = k

\* C17: with -s, the pairs that reach clustering are the overlap pairs
\* whose two identifier columns differ, all of them and in their order; no
\* bucket row pairs an identifier with itself; a feature whose only
\* overlaps were self-hits is in the 1-0 (0-1) bucket; and the no-overlap
\* message is logged exactly when no pair is left after the filter.
C17_SelfHitsFiltered ==
    (Completed /\ options.noSelfHits) =>
       /\ fs[ovl] = SelectSeq(fs[RawOverlaps],
                              LAMBDA r : r.a.col9 # r.b.col9)
       /\ novl = Len(fs[ovl])
       /\ (novl = 0) <=> (NoOverlapMsg \in Range(log))
       /\ \A x \in OutputRows :
             LET r == BucketRows(x[1])[x[2]] IN
             IF options.aggregate THEN r.row.id1 # r.row.id2 \/ r.row.id1 = Dot
             ELSE x[1] \in ClusterLabels => r.a.col9 # r.b.col9
       /\ IF options.aggregate
          THEN /\ \A i \in 1..Len(fs["features1"]) :
                     OnlySelfHitsLeft(fs["features1"][i].id) =>
                        \E k \in 1..Len(BucketRows("1-0")) :
                           BucketRows("1-0")[k].row.id1 = fs["features1"][i].id
               /\ \A i \in 1..Len(fs["features2"]) :
                     OnlySelfHitsRight(fs["features2"][i].id) =>
                        \E k \in 1..Len(BucketRows("0-1")) :
                           BucketRows("0-1")[k].row.id2 = fs["features2"][i].id
          ELSE /\ \A i \in 1..Len(fs[f1]) :
                     OnlySelfHitsLeft(fs[f1][i].col9) =>
                        LeftInBucket(fs[f1][i], "1-0")
               /\ \A i \in 1..Len(fs[f2]) :
                     OnlySelfHitsRight(fs[f2][i].col9) =>
                        RightInBucket(fs[f2][i], "0-1")

\* C18: a name put on the list of files to delete is that of a file the
\* step has just created; the two input files are never on the list, and
\* no step changes or removes them, also when an input file itself is the
\* stage input f1 or f2.
C18_InputFilesUntouched ==
    [][ /\ \A n \in Range(tempfiles') \ Temps :
              n \notin DOMAIN fs /\ n \in DOMAIN fs'
        /\ "file1" \notin Range(tempfiles') /\ "file2" \notin Range(tempfiles')
        /\ "file1" \in DOMAIN fs' /\ fs'["file1"] = fs["file1"]
        /\ "file2" \in DOMAIN fs' /\ fs'["file2"] = fs["file2"]
      ]_vars

\* C18's case: a completed no-aggregate run without type option, the input
\* files having been the stage inputs, after the cleanup
C18_Witness ==
    /\ pc = "done" /\ ~options.aggregate
    /\ f1 = "file1" /\ f2 = "file2"
    /\ fs["file1"] # <<>> /\ fs["file2"] # <<>>
    /\ tempfiles # <<>> /\ \A n \in Temps : n \notin DOMAIN fs

====
